---- MODULE Spec2Model ----
(***************************************************************************)
(* Model of xdg-desktop-list (src/xdg-desktop-list.go, second revision,    *)
(* lines 182-385): find() with its walker goroutine, its pool of workers,  *)
(* the dispatcher that waits for them, and the collecting loop that        *)
(* removes shadowed entries and sorts; parse() as a pure operator over a   *)
(* modelled file system.                                                   *)
(*                                                                         *)
(* Strings are sequences of one-character strings, so that prefix, suffix, *)
(* cut, replace and comparison are computed as the Go library computes     *)
(* them.                                                                   *)
(***************************************************************************)
EXTENDS Integers, Sequences, FiniteSets, TLC

(***************************************************************************)
(* Bounds of the model.                                                    *)
(***************************************************************************)
MaxWorkers == 2
MaxDirs == 2

(***************************************************************************)
(* Program constants.                                                      *)
(***************************************************************************)
applicationsPath == <<"a", "p", "p", "l", "i", "c", "a", "t", "i", "o", "n", "s">>
desktopSuffix == <<".", "d", "e", "s", "k", "t", "o", "p">>
categoryUser == 1
categoryFlatpak == 2

\* Mutant of commandArgReplacer: the pair for the tab character is missing.
commandArgReplacerWithoutTab ==
    << << <<"%", "f">>, <<>> >>, << <<"%", "F">>, <<>> >>,
       << <<"%", "u">>, <<>> >>, << <<"%", "U">>, <<>> >>,
       << <<"%", "d">>, <<>> >>, << <<"%", "D">>, <<>> >>,
       << <<"%", "n">>, <<>> >>, << <<"%", "N">>, <<>> >>,
       << <<"%", "i">>, <<>> >>, << <<"%", "c">>, <<>> >>,
       << <<"%", "k">>, <<>> >>, << <<"%", "v">>, <<>> >>,
       << <<"%", "m">>, <<>> >>, << <<"@", "@", "u">>, <<>> >>,
       << <<"@", "@">>, <<>> >> >>

\* strings.NewReplacer arguments, as (old, new) pairs in argument order.
commandArgReplacer ==
    << << <<"%", "f">>, <<>> >>, << <<"%", "F">>, <<>> >>,
       << <<"%", "u">>, <<>> >>, << <<"%", "U">>, <<>> >>,
       << <<"%", "d">>, <<>> >>, << <<"%", "D">>, <<>> >>,
       << <<"%", "n">>, <<>> >>, << <<"%", "N">>, <<>> >>,
       << <<"%", "i">>, <<>> >>, << <<"%", "c">>, <<>> >>,
       << <<"%", "k">>, <<>> >>, << <<"%", "v">>, <<>> >>,
       << <<"%", "m">>, <<>> >>, << <<"@", "@", "u">>, <<>> >>,
       << <<"@", "@">>, <<>> >>,
       << <<"\t">>, <<" ">> >> >>

(***************************************************************************)
(* String library (package strings, cmp, path/filepath).                   *)
(***************************************************************************)
\* The characters the model uses, in ascending byte order.
ByteOrder ==
    <<"\t", " ", "%", ".", "/", "=", "@", "A", "B", "D", "E", "F", "N", "T", "U",
      "a", "b", "c", "d", "e", "f", "g", "h", "i", "j", "k", "l", "m", "n",
      "o", "p", "q", "r", "s", "t", "u", "v", "w", "x", "y", "z">>

OrdOf ==
    [c \in {ByteOrder[i] : i \in 1..Len(ByteOrder)} |->
        CHOOSE i \in 1..Len(ByteOrder) : ByteOrder[i] = c]

Ord(c) == OrdOf[c]

HasPrefix(s, prefix) ==
    /\ Len(s) >= Len(prefix)
    /\ SubSeq(s, 1, Len(prefix)) = prefix

HasSuffix(s, suffix) ==
    /\ Len(s) >= Len(suffix)
    /\ SubSeq(s, Len(s) - Len(suffix) + 1, Len(s)) = suffix

TrimSuffix(s, suffix) ==
    IF HasSuffix(s, suffix) THEN SubSeq(s, 1, Len(s) - Len(suffix)) ELSE s

Contains(s, substr) ==
    \E i \in 1..(Len(s) + 1) : HasPrefix(SubSeq(s, i, Len(s)), substr)

\* strings.Cut(s, sep) for a one-character sep: the part after the first sep,
\* or the empty string when sep does not occur.
CutAfter(s, sep) ==
    IF \E i \in 1..Len(s) : s[i] = sep
    THEN LET i == CHOOSE k \in 1..Len(s) :
                     s[k] = sep /\ \A m \in 1..(k - 1) : s[m] # sep
         IN SubSeq(s, i + 1, Len(s))
    ELSE <<>>

IsSpace(c) == c \in {" ", "\t"}

\* Mutant of TrimSpaceIsEmpty: only the empty line counts as blank.
IsEmptyString(s) == s = <<>>

\* strings.TrimSpace(s) == ""
TrimSpaceIsEmpty(s) == \A i \in 1..Len(s) : IsSpace(s[i])

\* cmp.Compare on strings: bytewise lexicographic, -1, 0 or 1.
RECURSIVE CompareString(_, _)
CompareString(a, b) ==
    IF a = <<>> /\ b = <<>> THEN 0
    ELSE IF a = <<>> THEN -1
    ELSE IF b = <<>> THEN 1
    ELSE IF Ord(Head(a)) < Ord(Head(b)) THEN -1
    ELSE IF Ord(Head(a)) > Ord(Head(b)) THEN 1
    ELSE CompareString(Tail(a), Tail(b))

CompareInt(a, b) == IF a < b THEN -1 ELSE IF a > b THEN 1 ELSE 0

\* filepath.Join of two elements (empty elements are ignored; the paths of
\* the model are already clean).
Join(a, b) ==
    IF a = <<>> THEN b
    ELSE IF b = <<>> THEN a
    ELSE a \o <<"/">> \o b

\* filepath.Base: the last element of the path.
Base(path) ==
    IF \E i \in 1..Len(path) : path[i] = "/"
    THEN LET i == CHOOSE k \in 1..Len(path) :
                     path[k] = "/" /\ \A m \in (k + 1)..Len(path) : path[m] # "/"
         IN SubSeq(path, i + 1, Len(path))
    ELSE path

\* (*strings.Replacer).Replace of the generic replacer: at each position the
\* first pair, in argument order, whose old string matches is applied and the
\* scan continues after the match; otherwise the character is copied.
RECURSIVE Replace(_, _)
Replace(pairs, s) ==
    IF s = <<>> THEN <<>>
    ELSE LET hits == {k \in 1..Len(pairs) : HasPrefix(s, pairs[k][1])}
         IN IF hits = {}
            THEN <<Head(s)>> \o Replace(pairs, Tail(s))
            ELSE LET k == CHOOSE h \in hits : \A g \in hits : h <= g
                 IN pairs[k][2]
                      \o Replace(pairs, SubSeq(s, Len(pairs[k][1]) + 1, Len(s)))

(***************************************************************************)
(* The file system the program runs on.                                    *)
(***************************************************************************)
VARIABLES
    xdgDataDirs,            \* find's first argument
    numWorkers,             \* find's second argument
    disk,                   \* file path -> kind of file (fixed during a run)
    walkerPc,               \* walker goroutine: "next", "send", "done"
    walkerDir,              \* walker: the loop index i (0-based)
    walkerEnts,             \* walker: paths of directory i still to be sent
    applicationPathsClosed, \* close(applicationPaths) has happened
    dispatcherPc,           \* dispatcher goroutine: "spawn", "wait", "done"
    spawned,                \* dispatcher: the loop index i
    wg,                     \* sync.WaitGroup counter
    waiting,                \* number of workers blocked receiving a pair
    parsing,                \* the pairs held by workers that are in parse
    sending,                \* the entries held by workers blocked sending
    applicationsClosed,     \* close(applications) has happened
    findPc,                 \* find's own goroutine: "collect", "done"
    results,                \* find: results
    maxIndexes,             \* find: maxIndexes
    returned,               \* find's return value
    logged,                 \* pairs reported with log.Printf
    parseCalls,             \* pair -> number of parse calls made for it
    received,               \* the entries in the order the loop received them
    pureIn,                 \* argument of a call of parse or Replace on its own
    pureOut                 \* result of that call

vars ==
    <<xdgDataDirs, numWorkers, disk, walkerPc, walkerDir, walkerEnts,
      applicationPathsClosed, dispatcherPc, spawned, wg, waiting, parsing,
      sending, applicationsClosed, findPc, results, maxIndexes, returned,
      logged, parseCalls, received, pureIn, pureOut>>

\* Base directories a caller may name: two that have an applications
\* subdirectory and one whose applications subdirectory cannot be read.
UsrDir == <<"/", "u", "s", "r">>
HomeDir == <<"/", "h", "o", "m", "e", "/", "u">>
OptDir == <<"/", "o", "p", "t">>
DataDirs == {UsrDir, HomeDir, OptDir}
ReadableDirs == {Join(UsrDir, applicationsPath), Join(HomeDir, applicationsPath)}

\* Names of the entry files a readable directory may hold.
FileNames ==
    { <<"a", ".", "d", "e", "s", "k", "t", "o", "p">>,
      <<"B", ".", "d", "e", "s", "k", "t", "o", "p">> }

\* Every readable directory also holds a subdirectory and a file of another
\* suffix.
OtherEnts ==
    { [name |-> <<"m", ".", "d", "e", "s", "k", "t", "o", "p">>, isDir |-> TRUE],
      [name |-> <<"a", ".", "t", "x", "t">>, isDir |-> FALSE] }

FileB == <<"B", ".", "d", "e", "s", "k", "t", "o", "p">>
FilePaths == {Join(d, n) : d \in ReadableDirs, n \in FileNames}

NoDisplayLine == <<"N", "o", "D", "i", "s", "p", "l", "a", "y", "=", "t", "r", "u", "e">>
TerminalLine == <<"T", "e", "r", "m", "i", "n", "a", "l", "=", "t", "r", "u", "e">>
TypeLine == <<"T", "y", "p", "e", "=", "A", "p", "p", "l", "i", "c", "a", "t", "i", "o", "n">>
ExecPrefix == <<"E", "x", "e", "c", "=">>
ExecFooLine == <<"E", "x", "e", "c", "=", "f", "o", "o", " ", "%", "u">>

\* A file: whether it exists, whether os.Open fails, its lines as the scanner
\* splits them, and the number of lines the scanner delivers before a read
\* fails (NoReadErr when every line can be read).
NoReadErr == -1
Absent == [present |-> FALSE, openErr |-> FALSE, lines |-> <<>>, readErrAt |-> NoReadErr]
Good == [present |-> TRUE, openErr |-> FALSE, lines |-> <<TypeLine, ExecFooLine>>,
         readErrAt |-> NoReadErr]
Hidden == [present |-> TRUE, openErr |-> FALSE,
           lines |-> <<TypeLine, ExecFooLine, NoDisplayLine>>, readErrAt |-> NoReadErr]
Unopenable == [present |-> TRUE, openErr |-> TRUE, lines |-> <<TypeLine, ExecFooLine>>,
               readErrAt |-> NoReadErr]
Truncated == [present |-> TRUE, openErr |-> FALSE,
              lines |-> <<TypeLine, ExecFooLine, NoDisplayLine>>, readErrAt |-> 2]
Files ==
    [absent |-> Absent, good |-> Good, hidden |-> Hidden,
     unopenable |-> Unopenable, truncated |-> Truncated]

\* The file at a path.
FileAt(path) == Files[disk[path]]

\* The lines bufio.Scanner delivers before Scan returns false.
ScannedLines(f) ==
    IF f.readErrAt = NoReadErr THEN f.lines ELSE SubSeq(f.lines, 1, f.readErrAt)

\* Names in ascending byte order, as os.ReadDir returns them.
RECURSIVE SortNames(_)
SortNames(S) ==
    IF S = {} THEN <<>>
    ELSE LET least == CHOOSE e \in S :
                          \A o \in S : CompareString(e.name, o.name) <= 0
         IN <<least>> \o SortNames(S \ {least})

\* os.ReadDir
ReadDir(dir) ==
    IF dir \notin ReadableDirs
    THEN [err |-> TRUE, ents |-> <<>>]
    ELSE [err |-> FALSE,
          ents |-> SortNames(OtherEnts \cup
                      {[name |-> n, isDir |-> FALSE] :
                          n \in {m \in FileNames : FileAt(Join(dir, m)).present}})]

(***************************************************************************)
(* parse                                                                   *)
(***************************************************************************)
NoAppl ==
    [dirIndex |-> 0, applicationFile |-> <<>>, category |-> 0, name |-> <<>>,
     command |-> <<>>]

\* Mutant of ExecCommand: an Exec= line does not replace a command that was
\* already found.
ExecCommandKeepsFirst(command, line) ==
    IF command # <<>> THEN command ELSE CutAfter(line, "=")

\* _, command, _ = strings.Cut(line, "=")
ExecCommand(command, line) == CutAfter(line, "=")

\* Mutant of NotDisplayable: only a file that lacks both is passed over.
NotDisplayableWhenBothMissing(hasApplication, command) ==
    ~hasApplication /\ command = <<>>

\* !hasApplication || command == ""
NotDisplayable(hasApplication, command) == ~hasApplication \/ command = <<>>

\* The scanning loop of parse: the lines are taken in order; hidden is set
\* when the loop returned early, otherwise the flags the loop left are given.
RECURSIVE ScanBlock(_, _, _)
ScanBlock(lines, hasApplication, command) ==
    IF lines = <<>>
    THEN [hidden |-> FALSE, hasApplication |-> hasApplication, command |-> command]
    ELSE LET line == Head(lines)
         IN IF HasPrefix(line, NoDisplayLine)
            THEN [hidden |-> TRUE, hasApplication |-> hasApplication, command |-> command]
            ELSE IF HasPrefix(line, TerminalLine)
            THEN [hidden |-> TRUE, hasApplication |-> hasApplication, command |-> command]
            ELSE IF HasPrefix(line, TypeLine)
            THEN ScanBlock(Tail(lines), TRUE, command)
            ELSE IF HasPrefix(line, ExecPrefix)
            THEN ScanBlock(Tail(lines), hasApplication, ExecCommand(command, line))
            ELSE IF TrimSpaceIsEmpty(line)
            THEN [hidden |-> FALSE, hasApplication |-> hasApplication, command |-> command]
            ELSE ScanBlock(Tail(lines), hasApplication, command)

\* The category bits parse sets from the path.
Categ(path) ==
    (IF HasPrefix(path, <<"/", "h", "o", "m", "e">>) THEN categoryUser ELSE 0)
      + (IF Contains(path, <<"/", "f", "l", "a", "t", "p", "a", "k">>)
         THEN categoryFlatpak ELSE 0)

\* parse(applicationFile, dirIndex) on the file f: kind is "err" for
\* (nil, err), "nil" for (nil, nil) and "appl" for (appl, nil).
parseFile(f, applicationFile, dirIndex) ==
    IF ~f.present \/ f.openErr
    THEN [kind |-> "err", appl |-> NoAppl]
    ELSE LET sc == ScanBlock(ScannedLines(f), FALSE, <<>>)
         IN IF sc.hidden
            THEN [kind |-> "nil", appl |-> NoAppl]
            ELSE IF NotDisplayable(sc.hasApplication, sc.command)
            THEN [kind |-> "nil", appl |-> NoAppl]
            ELSE [kind |-> "appl",
                  appl |-> [dirIndex |-> dirIndex,
                            applicationFile |-> applicationFile,
                            category |-> Categ(applicationFile),
                            name |-> TrimSuffix(Base(applicationFile), desktopSuffix),
                            command |-> Replace(commandArgReplacer, sc.command)]]

\* parseFile tabulated over the files, paths and indexes of the model.
parseTable ==
    [k \in DOMAIN Files, applicationFile \in FilePaths, dirIndex \in 0..(MaxDirs - 1) |->
        parseFile(Files[k], applicationFile, dirIndex)]

\* parse(applicationFile, dirIndex) on the file system of the run.
parse(applicationFile, dirIndex) ==
    parseTable[disk[applicationFile], applicationFile, dirIndex]

(***************************************************************************)
(* find: the walker goroutine                                              *)
(***************************************************************************)
RECURSIVE EntPaths(_, _)
EntPaths(applicationDir, ents) ==
    IF ents = <<>> THEN <<>>
    ELSE LET ent == Head(ents)
         IN IF ent.isDir \/ ~HasSuffix(ent.name, desktopSuffix)
            THEN EntPaths(applicationDir, Tail(ents))
            ELSE <<Join(applicationDir, ent.name)>>
                   \o EntPaths(applicationDir, Tail(ents))

\* The paths the walker sends for the directory at index i (0-based), in the
\* order it sends them; none when the directory cannot be read.
Candidates(i) ==
    LET applicationDir == Join(xdgDataDirs[i + 1], applicationsPath)
        dirEnt == ReadDir(applicationDir)
    IN IF dirEnt.err THEN <<>> ELSE EntPaths(applicationDir, dirEnt.ents)

\* The outer loop reaches directory i: read it and go on to the first send,
\* or to the next directory when there is nothing to send.
CanWalkerReadDir == walkerPc = "next" /\ walkerDir < Len(xdgDataDirs)

\* Mutant of WalkerReadDir: a directory that cannot be read ends the walk.
WalkerReadDirStopsOnError ==
    /\ CanWalkerReadDir
    /\ walkerEnts' = Candidates(walkerDir)
    /\ walkerPc' = IF walkerEnts' = <<>> THEN "next" ELSE "send"
    /\ walkerDir' =
          IF ReadDir(Join(xdgDataDirs[walkerDir + 1], applicationsPath)).err
          THEN Len(xdgDataDirs)
          ELSE IF walkerEnts' = <<>> THEN walkerDir + 1 ELSE walkerDir
    /\ UNCHANGED <<xdgDataDirs, numWorkers, disk, applicationPathsClosed,
                   dispatcherPc, spawned, wg, waiting, parsing, sending,
                   applicationsClosed, findPc, results, maxIndexes, returned,
                   logged, parseCalls, received, pureIn, pureOut>>

WalkerReadDir ==
    /\ CanWalkerReadDir
    /\ walkerEnts' = Candidates(walkerDir)
    /\ walkerPc' = IF walkerEnts' = <<>> THEN "next" ELSE "send"
    /\ walkerDir' = IF walkerEnts' = <<>> THEN walkerDir + 1 ELSE walkerDir
    /\ UNCHANGED <<xdgDataDirs, numWorkers, disk, applicationPathsClosed,
                   dispatcherPc, spawned, wg, waiting, parsing, sending,
                   applicationsClosed, findPc, results, maxIndexes, returned,
                   logged, parseCalls, received,
                   pureIn, pureOut>>

\* close(applicationPaths)
CanWalkerClose == walkerPc = "next" /\ walkerDir = Len(xdgDataDirs)

WalkerClose ==
    /\ CanWalkerClose
    /\ applicationPathsClosed' = TRUE
    /\ walkerPc' = "done"
    /\ UNCHANGED <<xdgDataDirs, numWorkers, disk, walkerDir, walkerEnts,
                   dispatcherPc, spawned, wg, waiting, parsing, sending,
                   applicationsClosed, findPc, results, maxIndexes, returned,
                   logged, parseCalls, received,
                   pureIn, pureOut>>

\* Mutant of WalkerAfterSend: the entry after the one sent is passed over.
WalkerAfterSendSkipping ==
    IF Len(walkerEnts) <= 2
    THEN /\ walkerDir' = walkerDir + 1
         /\ walkerEnts' = <<>>
         /\ walkerPc' = "next"
    ELSE /\ walkerEnts' = Tail(Tail(walkerEnts))
         /\ UNCHANGED <<walkerDir, walkerPc>>

\* The walker after a send: the rest of the directory, or the next directory.
WalkerAfterSend ==
    IF Tail(walkerEnts) = <<>>
    THEN /\ walkerDir' = walkerDir + 1
         /\ walkerEnts' = <<>>
         /\ walkerPc' = "next"
    ELSE /\ walkerEnts' = Tail(walkerEnts)
         /\ UNCHANGED <<walkerDir, walkerPc>>

(***************************************************************************)
(* find: the dispatcher goroutine and its workers.  The workers run the    *)
(* same closure and carry no identity: the model keeps how many of them    *)
(* wait for a pair, which pairs are being parsed and which entries are     *)
(* being sent.                                                             *)
(***************************************************************************)
\* One iteration of the spawning loop: wg.Add(1); go func() {...}()
CanSpawn == dispatcherPc = "spawn" /\ spawned < numWorkers

Spawn ==
    /\ CanSpawn
    /\ wg' = wg + 1
    /\ waiting' = waiting + 1
    /\ spawned' = spawned + 1
    /\ dispatcherPc' = IF spawned + 1 = numWorkers THEN "wait" ELSE "spawn"
    /\ UNCHANGED <<xdgDataDirs, numWorkers, disk, walkerPc, walkerDir,
                   walkerEnts, applicationPathsClosed, parsing, sending,
                   applicationsClosed, findPc, results, maxIndexes, returned,
                   logged, parseCalls, received,
                   pureIn, pureOut>>

\* Mutant of WaitReturns: the dispatcher does not wait.
WaitReturnsAtOnce == TRUE

\* wg.Wait() returns
WaitReturns == wg = 0

\* wg.Wait(); close(applications)
CanCloseApplications == dispatcherPc = "wait" /\ WaitReturns

CloseApplications ==
    /\ CanCloseApplications
    /\ applicationsClosed' = TRUE
    /\ dispatcherPc' = "done"
    /\ UNCHANGED <<xdgDataDirs, numWorkers, disk, walkerPc, walkerDir,
                   walkerEnts, applicationPathsClosed, spawned, wg, waiting,
                   parsing, sending, findPc, results, maxIndexes, returned,
                   logged, parseCalls, received,
                   pureIn, pureOut>>

\* The unbuffered channel applicationPaths hands one pair from the walker's
\* send to the receive of a waiting worker.
\* Mutant of CanReceive: the send does not wait for a receiver.
CanReceiveUnready == walkerPc = "send"

CanReceive == walkerPc = "send" /\ waiting > 0

Receive ==
    /\ CanReceive
    /\ waiting' = waiting - 1
    /\ parsing' = parsing \cup {[dirIndex |-> walkerDir, path |-> Head(walkerEnts)]}
    /\ WalkerAfterSend
    /\ UNCHANGED <<xdgDataDirs, numWorkers, disk, applicationPathsClosed,
                   dispatcherPc, spawned, wg, sending, applicationsClosed,
                   findPc, results, maxIndexes, returned, logged, parseCalls, received,
                   pureIn, pureOut>>

CountOf(calls, pair) == IF pair \in DOMAIN calls THEN calls[pair] ELSE 0

\* Mutant of WaitingAfterParse: after a failed parse the worker does not
\* take another pair.
WaitingAfterParseStops(kind) == IF kind = "nil" THEN waiting + 1 ELSE waiting

\* The workers that wait for a pair after a parse: on an error the worker
\* continues, on a nil entry too, on an entry it goes on to send.
WaitingAfterParse(kind) == IF kind = "appl" THEN waiting ELSE waiting + 1

\* The worker that holds pair calls parse on it; an error is logged.
Parse(pair) ==
    /\ pair \in parsing
    /\ parsing' = parsing \ {pair}
    /\ parseCalls' =
          [p \in DOMAIN parseCalls \cup {pair} |->
              IF p = pair THEN CountOf(parseCalls, p) + 1 ELSE parseCalls[p]]
    /\ LET r == parse(pair.path, pair.dirIndex)
       IN /\ logged' = IF r.kind = "err" THEN logged \cup {pair} ELSE logged
          /\ waiting' = WaitingAfterParse(r.kind)
          /\ sending' = IF r.kind = "appl" THEN sending \cup {r.appl} ELSE sending
    /\ UNCHANGED <<xdgDataDirs, numWorkers, disk, walkerPc, walkerDir,
                   walkerEnts, applicationPathsClosed, dispatcherPc, spawned,
                   wg, applicationsClosed, findPc, results, maxIndexes,
                   returned, received,
                   pureIn, pureOut>>

MapGet(m, k) == IF k \in DOMAIN m THEN m[k] ELSE 0

Max(a, b) == IF a > b THEN a ELSE b

\* Mutant of UpdateMaxIndexes: the index of the entry received last is kept.
UpdateLastIndex(m, a) ==
    [k \in DOMAIN m \cup {a.name} |-> IF k = a.name THEN a.dirIndex ELSE m[k]]

\* maxIndexes[appl.name] = max(maxIndexes[appl.name], appl.dirIndex)
UpdateMaxIndexes(m, a) ==
    [k \in DOMAIN m \cup {a.name} |->
        IF k = a.name THEN Max(MapGet(m, k), a.dirIndex) ELSE m[k]]

\* The unbuffered channel applications hands the entry of a sending worker
\* to the collecting loop, which appends it and updates maxIndexes.
CanSend == findPc = "collect" /\ ~applicationsClosed

Send(a) ==
    /\ a \in sending
    /\ CanSend
    /\ sending' = sending \ {a}
    /\ waiting' = waiting + 1
    /\ results' = Append(results, a)
    /\ received' = Append(received, a)
    /\ maxIndexes' = UpdateMaxIndexes(maxIndexes, a)
    /\ UNCHANGED <<xdgDataDirs, numWorkers, disk, walkerPc, walkerDir,
                   walkerEnts, applicationPathsClosed, dispatcherPc, spawned,
                   wg, parsing, applicationsClosed, findPc, returned, logged,
                   parseCalls,
                   pureIn, pureOut>>

CanWorkerExit == waiting > 0 /\ applicationPathsClosed

\* Mutant of WorkerExit: the worker ends without wg.Done().
WorkerExitWithoutDone ==
    /\ CanWorkerExit
    /\ waiting' = waiting - 1
    /\ UNCHANGED <<xdgDataDirs, numWorkers, disk, walkerPc, walkerDir,
                   walkerEnts, applicationPathsClosed, dispatcherPc, spawned,
                   wg, parsing, sending, applicationsClosed, findPc, results,
                   maxIndexes, returned, logged, parseCalls, received,
                   pureIn, pureOut>>

\* The range loop of a waiting worker ends on the closed channel: wg.Done()
WorkerExit ==
    /\ CanWorkerExit
    /\ waiting' = waiting - 1
    /\ wg' = wg - 1
    /\ UNCHANGED <<xdgDataDirs, numWorkers, disk, walkerPc, walkerDir,
                   walkerEnts, applicationPathsClosed, dispatcherPc, spawned,
                   parsing, sending, applicationsClosed, findPc, results,
                   maxIndexes, returned, logged, parseCalls, received,
                   pureIn, pureOut>>

(***************************************************************************)
(* find: removing shadowed entries, sorting, returning                     *)
(***************************************************************************)
\* Mutant of Shadowed: the comparison is not strict.
ShadowedOrEqual(a, m) == a.dirIndex <= MapGet(m, a.name)

\* The predicate given to slices.DeleteFunc
Shadowed(a, m) == a.dirIndex < MapGet(m, a.name)

DeleteFunc(s, m) == SelectSeq(s, LAMBDA a : ~Shadowed(a, m))

\* Mutant of Cmp: the name is compared before the index.
CmpNameFirst(a, b) ==
    LET byName == CompareString(a.name, b.name)
    IN IF byName # 0 THEN byName ELSE CompareInt(a.dirIndex, b.dirIndex)

\* The comparison given to slices.SortFunc
Cmp(a, b) ==
    LET byIndex == CompareInt(a.dirIndex, b.dirIndex)
    IN IF byIndex # 0 THEN byIndex ELSE CompareString(a.name, b.name)

RECURSIVE Insert(_, _)
Insert(sorted, x) ==
    IF sorted = <<>> THEN <<x>>
    ELSE IF Cmp(x, Head(sorted)) < 0 THEN <<x>> \o sorted
    ELSE <<Head(sorted)>> \o Insert(Tail(sorted), x)

\* Mutant of SortFunc: the sequence is left as it was received.
SortFuncSkipped(s) == s

\* slices.SortFunc with Cmp (the order of elements that compare equal is
\* not fixed by the library; the entries that reach it have distinct keys).
RECURSIVE SortFunc(_)
SortFunc(s) ==
    IF s = <<>> THEN <<>> ELSE Insert(SortFunc(SubSeq(s, 1, Len(s) - 1)), s[Len(s)])

\* The range loop over applications ends on the closed channel; find filters,
\* sorts and returns (results, nil).
\* Mutant of CanFinish: the loop ends before applications is closed.
CanFinishEarly == findPc = "collect"

CanFinish == findPc = "collect" /\ applicationsClosed

Finish ==
    /\ CanFinish
    /\ results' = SortFunc(DeleteFunc(results, maxIndexes))
    /\ returned' = [results |-> results', err |-> "nil"]
    /\ findPc' = "done"
    /\ UNCHANGED <<xdgDataDirs, numWorkers, disk, walkerPc, walkerDir,
                   walkerEnts, applicationPathsClosed, dispatcherPc, spawned,
                   wg, waiting, parsing, sending, applicationsClosed,
                   maxIndexes, logged, parseCalls, received,
                   pureIn, pureOut>>

(***************************************************************************)
(* The specification                                                       *)
(***************************************************************************)
DirLists == UNION {[1..n -> DataDirs] : n \in 1..MaxDirs}

\* The file systems of the model: any file at the first name in both
\* readable directories, and possibly a displayable file at the second name
\* in one of them.
Disks ==
    {d \in [FilePaths -> DOMAIN Files] :
        /\ d[Join(Join(HomeDir, applicationsPath), FileB)] = "absent"
        /\ d[Join(Join(UsrDir, applicationsPath), FileB)] \in {"absent", "good"}}

Init ==
    /\ xdgDataDirs \in DirLists
    /\ numWorkers \in 1..MaxWorkers
    /\ disk \in Disks
    /\ walkerPc = "next"
    /\ walkerDir = 0
    /\ walkerEnts = <<>>
    /\ applicationPathsClosed = FALSE
    /\ dispatcherPc = "spawn"
    /\ spawned = 0
    /\ wg = 0
    /\ waiting = 0
    /\ parsing = {}
    /\ sending = {}
    /\ applicationsClosed = FALSE
    /\ findPc = "collect"
    /\ results = <<>>
    /\ maxIndexes = <<>>
    /\ returned = [results |-> <<>>, err |-> "none"]
    /\ logged = {}
    /\ parseCalls = <<>>
    /\ received = <<>>
    /\ pureIn = <<>>
    /\ pureOut = <<>>

Next ==
    \/ WalkerReadDir
    \/ WalkerClose
    \/ Spawn
    \/ CloseApplications
    \/ Receive
    \/ \E pair \in parsing : Parse(pair)
    \/ \E a \in sending : Send(a)
    \/ WorkerExit
    \/ Finish

Spec == Init /\ [][Next]_vars

\* Some step is possible: the guard of some action holds (every action is
\* its guard and an assignment to each variable).
CanStep ==
    \/ CanWalkerReadDir
    \/ CanWalkerClose
    \/ CanSpawn
    \/ CanCloseApplications
    \/ CanReceive
    \/ parsing # {}
    \/ sending # {} /\ CanSend
    \/ CanWorkerExit
    \/ CanFinish

\* Fair scheduling: a goroutine that can run is run in the end.  This is
\* WF_vars(Next) written out, with CanStep for ENABLED <<Next>>_vars (every
\* step changes vars).
Fairness == []<>(~CanStep) \/ []<><<Next>>_vars

FairSpec == Spec /\ Fairness

(***************************************************************************)
(* parse and Replace on their own: one candidate file, or one raw command, *)
(* is drawn from a bounded set and the function is applied to it.          *)
(***************************************************************************)
MaxLines == 4
MaxCmdLen == 4

ExecEmptyLine == <<"E", "x", "e", "c", "=">>
ExecEqLine == <<"E", "x", "e", "c", "=", "b", "=", "c">>
NameLine == <<"N", "a", "m", "e", "=", "x">>
SpaceLine == <<" ", "\t">>

\* The lines a file of the bounded set is made of.
LineKinds ==
    {TypeLine, ExecFooLine, ExecEmptyLine, ExecEqLine, NoDisplayLine,
     TerminalLine, NameLine, SpaceLine, <<>>}

SeqsUpTo(S, n) == UNION {[1..k -> S] : k \in 0..n}

\* Names of directory entries: an entry file, the bare suffix, another file.
EntNames ==
    { <<"a", ".", "d", "e", "s", "k", "t", "o", "p">>,
      <<".", "d", "e", "s", "k", "t", "o", "p">>,
      <<"a", ".", "t", "x", "t">> }

ParseInputs == [name : EntNames, lines : SeqsUpTo(LineKinds, MaxLines)]

RawChars == {"%", "f", "u", "@", "\t", "a"}

FirefoxCommand ==
    <<"f", "i", "r", "e", "f", "o", "x", " ", "%", "u", " ", "%", "U", " ",
      "-", "-", "n", "e", "w", "-", "w", "i", "n", "d", "o", "w">>

RawCommands == SeqsUpTo(RawChars, MaxCmdLen) \cup {FirefoxCommand}

NotRun == [kind |-> "none"]

\* find is not running: its variables keep their initial values.
FindIdle ==
    /\ xdgDataDirs = <<UsrDir>>
    /\ numWorkers = 1
    /\ disk = [p \in FilePaths |-> "absent"]
    /\ walkerPc = "next"
    /\ walkerDir = 0
    /\ walkerEnts = <<>>
    /\ applicationPathsClosed = FALSE
    /\ dispatcherPc = "spawn"
    /\ spawned = 0
    /\ wg = 0
    /\ waiting = 0
    /\ parsing = {}
    /\ sending = {}
    /\ applicationsClosed = FALSE
    /\ findPc = "collect"
    /\ results = <<>>
    /\ maxIndexes = <<>>
    /\ returned = [results |-> <<>>, err |-> "none"]
    /\ logged = {}
    /\ parseCalls = <<>>
    /\ received = <<>>

findVars ==
    <<xdgDataDirs, numWorkers, disk, walkerPc, walkerDir, walkerEnts,
      applicationPathsClosed, dispatcherPc, spawned, wg, waiting, parsing,
      sending, applicationsClosed, findPc, results, maxIndexes, returned,
      logged, parseCalls, received>>

\* The file of a parse input: it opens and every line of it can be read.
InputFile(in) ==
    [present |-> TRUE, openErr |-> FALSE, lines |-> in.lines, readErrAt |-> NoReadErr]

\* What the walker and a worker do with one directory entry of
\* /usr/applications: the walker passes it over, or sends its path and the
\* worker calls parse on it.
ParseEnt(in) ==
    LET applicationDir == Join(UsrDir, applicationsPath)
        paths == EntPaths(applicationDir, <<[name |-> in.name, isDir |-> FALSE]>>)
    IN IF paths = <<>>
       THEN [kind |-> "skipped", appl |-> NoAppl]
       ELSE parseFile(InputFile(in), paths[1], 0)

ParseInit ==
    /\ FindIdle
    /\ pureIn \in ParseInputs
    /\ pureOut = NotRun

ParseStep ==
    /\ pureOut = NotRun
    /\ pureOut' = ParseEnt(pureIn)
    /\ UNCHANGED <<findVars, pureIn>>

ParseSpec == ParseInit /\ [][ParseStep]_vars

ReplaceInit ==
    /\ FindIdle
    /\ pureIn \in RawCommands
    /\ pureOut = NotRun

\* command = commandArgReplacer.Replace(command)
ReplaceStep ==
    /\ pureOut = NotRun
    /\ pureOut' = [kind |-> "replaced", command |-> Replace(commandArgReplacer, pureIn)]
    /\ UNCHANGED <<findVars, pureIn>>

ReplaceSpec == ReplaceInit /\ [][ReplaceStep]_vars

(***************************************************************************)
(* What the file system determines, whatever the schedule                  *)
(***************************************************************************)
Done == findPc = "done"

\* The pairs the walker sends during a complete walk, in its order.
RECURSIVE WalkFrom(_)
WalkFrom(i) ==
    IF i >= Len(xdgDataDirs) THEN <<>>
    ELSE LET paths == Candidates(i)
         IN [k \in 1..Len(paths) |-> [dirIndex |-> i, path |-> paths[k]]]
              \o WalkFrom(i + 1)

SeqToSet(s) == {s[k] : k \in 1..Len(s)}

AllPairs == SeqToSet(WalkFrom(0))

Displayable(pair) == parse(pair.path, pair.dirIndex).kind = "appl"

EntryOf(pair) == parse(pair.path, pair.dirIndex).appl

\* The entries of the displayable files of the walk, in the walker's order.
InOrderEntries ==
    LET pairs == SelectSeq(WalkFrom(0), Displayable)
    IN [k \in 1..Len(pairs) |-> EntryOf(pairs[k])]

Retained(n) ==
    {k \in 1..Len(returned.results) : returned.results[k].name = n}

C2_EachNameOnce ==
    Done =>
        \A e \in SeqToSet(InOrderEntries) : Cardinality(Retained(e.name)) = 1

\* A run has returned on a list that names one directory at two positions,
\* with a displayable file in that directory.
C2_Witness ==
    /\ Done
    /\ \E a, b \in SeqToSet(InOrderEntries) :
          /\ a.dirIndex # b.dirIndex
          /\ xdgDataDirs[a.dirIndex + 1] = xdgDataDirs[b.dirIndex + 1]
          /\ a.applicationFile = b.applicationFile

\* C3: the returned sequence ascends by rank and, within a rank, by name in
\* byte order.
C3_SortedByRankThenName ==
    Done =>
        \A k \in 1..(Len(returned.results) - 1) :
            LET a == returned.results[k]
                b == returned.results[k + 1]
            IN \/ a.dirIndex < b.dirIndex
               \/ /\ a.dirIndex = b.dirIndex
                  /\ CompareString(a.name, b.name) <= 0

\* A run has returned two entries that the loop had received in the other
\* order.
C3_Witness ==
    /\ Done
    /\ Len(returned.results) >= 2
    /\ \E i, j \in 1..Len(received) :
          /\ i < j
          /\ received[j] = returned.results[1]
          /\ received[i] = returned.results[2]

RECURSIVE MaxIndexesOf(_)
MaxIndexesOf(entries) ==
    IF entries = <<>> THEN <<>>
    ELSE UpdateMaxIndexes(MaxIndexesOf(Tail(entries)), Head(entries))

\* What find returns when the entries arrive in the walker's order.
InOrderResult ==
    LET entries == InOrderEntries
    IN SortFunc(DeleteFunc(entries, MaxIndexesOf(entries)))

\* C4: whatever the number of workers and the schedule, find returns the
\* sequence that the directory list and the files determine.
C4_OutputDetermined ==
    Done => returned.results = InOrderResult

\* A run with more than one worker has returned entries that the loop had
\* received in an order that is not the walker's.
C4_Witness ==
    /\ Done
    /\ numWorkers >= 2
    /\ Len(received) >= 2
    /\ received # InOrderEntries

\* C5: no pair is parsed more than once, a pair that a worker holds has not
\* been parsed before, and when find has returned the pairs that were parsed
\* are exactly the pairs of the walk.
C5_EachPairParsedOnce ==
    /\ \A p \in DOMAIN parseCalls : parseCalls[p] = 1
    /\ parsing \cap DOMAIN parseCalls = {}
    /\ Done => DOMAIN parseCalls = AllPairs

\* A run with two workers has returned after a walk of three pairs or more.
C5_Witness ==
    /\ Done
    /\ numWorkers >= 2
    /\ Cardinality(DOMAIN parseCalls) >= 3

\* C6: applications is closed only when every worker has terminated, a
\* worker has terminated only when applicationPaths is closed and the walker
\* is done, no worker is sending when applications is closed, and when find
\* filters and sorts the loop has received every entry the workers produced.
C6_CloseAfterWorkers ==
    /\ applicationsClosed =>
          /\ spawned = numWorkers
          /\ wg = 0
          /\ waiting = 0
          /\ parsing = {}
          /\ sending = {}
    /\ wg < spawned => applicationPathsClosed /\ walkerPc = "done"
    /\ Done =>
          LET entries == InOrderEntries
          IN /\ SeqToSet(received) = SeqToSet(entries)
             /\ Len(received) = Len(entries)

\* applications has been closed after the loop received two entries or more.
C6_Witness ==
    /\ applicationsClosed
    /\ numWorkers >= 2
    /\ Len(received) >= 2

\* The walker and every worker have terminated and both channels are closed.
AllTerminated ==
    /\ walkerPc = "done"
    /\ dispatcherPc = "done"
    /\ spawned = numWorkers
    /\ wg = 0
    /\ waiting = 0
    /\ parsing = {}
    /\ sending = {}
    /\ applicationPathsClosed
    /\ applicationsClosed

\* C7: under fair scheduling find eventually returns, and then the walker and
\* all workers have terminated and both channels are closed; and no task is
\* ever left blocked: a state in which no step is possible is that final
\* state.
C7_ScanCompletes ==
    /\ <>(Done /\ AllTerminated /\ returned.err = "nil")
    /\ [](CanStep \/ (Done /\ AllTerminated /\ returned.err = "nil"))

\* find has returned after a run of two workers over three pairs or more.
C7_Witness ==
    /\ Done
    /\ AllTerminated
    /\ numWorkers >= 2
    /\ Cardinality(DOMAIN parseCalls) >= 3

\* parse fails on the pair.
Fails(pair) == parse(pair.path, pair.dirIndex).kind = "err"

\* C8: a worker whose parse failed goes back to taking pairs and find goes on;
\* and when find has returned, it has returned a nil error, every pair of the
\* walk was parsed, and the loop received the entry of every displayable file.
C8_FailureIsolated ==
    /\ [][\A p \in parsing :
             (p \notin parsing' /\ Fails(p)) =>
                 /\ waiting' = waiting + 1
                 /\ wg' = wg
                 /\ findPc' = findPc
                 /\ received' = received]_vars
    /\ [](Done =>
             /\ returned.err = "nil"
             /\ DOMAIN parseCalls = AllPairs
             /\ SeqToSet(received) = SeqToSet(InOrderEntries))

\* find has returned an entry from a run in which the only worker had a parse
\* fail and parsed a displayable file after it.
C8_Witness ==
    /\ Done
    /\ numWorkers = 1
    /\ Len(returned.results) >= 1
    /\ \E p \in logged : \E e \in SeqToSet(received) : e.dirIndex > p.dirIndex

\* The file cannot be opened, or a read of it fails.
Unreadable(f) == f.openErr \/ f.readErrAt # NoReadErr

\* C9 as stated: when find has returned, every file of the walk that cannot be
\* opened or read has been logged and has contributed no entry.
C9_UnreadableLoggedAndDropped ==
    Done =>
        \A p \in AllPairs :
            Unreadable(FileAt(p.path)) =>
                /\ p \in logged
                /\ \A e \in SeqToSet(received) :
                      ~(e.applicationFile = p.path /\ e.dirIndex = p.dirIndex)

\* A line of the first block (the lines before the first blank line) begins
\* with NoDisplay=true or Terminal=true.
HiddenInFirstBlock(lines) ==
    \E i \in 1..Len(lines) :
        /\ HasPrefix(lines[i], NoDisplayLine) \/ HasPrefix(lines[i], TerminalLine)
        /\ \A j \in 1..(i - 1) : ~TrimSpaceIsEmpty(lines[j])

\* C10 as stated: a file that can be opened and whose first block holds a
\* NoDisplay=true or Terminal=true line never yields an entry and is never
\* logged as a failure.
C10_HiddenNeverYieldsEntry ==
    /\ \A e \in SeqToSet(received) \cup sending :
          ~HiddenInFirstBlock(FileAt(e.applicationFile).lines)
    /\ \A p \in logged :
          FileAt(p.path).openErr \/ ~HiddenInFirstBlock(FileAt(p.path).lines)

\* The applications directory of the directory at index i (0-based).
ApplicationDirAt(i) == Join(xdgDataDirs[i + 1], applicationsPath)

DirIndexes == 0..(Len(xdgDataDirs) - 1)

\* C14: every pair handed to a worker and every entry carries as rank a
\* position of the caller's list and a path in the applications directory at
\* that position; and when find has returned (with a nil error) every entry
\* file of every readable directory of the list has been parsed under the
\* position of its directory, also at positions after a directory that
\* cannot be read, for which nothing is logged.
C14_UnreadableDirSkipped ==
    /\ \A p \in DOMAIN parseCalls \cup parsing \cup logged :
          /\ p.dirIndex \in DirIndexes
          /\ ApplicationDirAt(p.dirIndex) \in ReadableDirs
          /\ \E n \in FileNames : p.path = Join(ApplicationDirAt(p.dirIndex), n)
    /\ \A e \in SeqToSet(received) \cup sending :
          /\ e.dirIndex \in DirIndexes
          /\ \E n \in FileNames :
                e.applicationFile = Join(ApplicationDirAt(e.dirIndex), n)
    /\ Done =>
          /\ returned.err = "nil"
          /\ \A i \in DirIndexes : \A n \in FileNames :
                (/\ ApplicationDirAt(i) \in ReadableDirs
                 /\ FileAt(Join(ApplicationDirAt(i), n)).present)
                  => [dirIndex |-> i, path |-> Join(ApplicationDirAt(i), n)]
                        \in DOMAIN parseCalls

\* find has returned an entry found at a position after a directory that
\* cannot be read.
C14_Witness ==
    /\ Done
    /\ \E k \in 1..Len(returned.results) : \E i \in DirIndexes :
          /\ i < returned.results[k].dirIndex
          /\ ApplicationDirAt(i) \notin ReadableDirs

\* The walker or some worker is still running.
ConcurrentWorkRunning == walkerPc # "done" \/ spawned < numWorkers \/ wg > 0

\* C17 as stated: while the walker or a worker is still running the map has
\* not been accessed (it is still empty).
C17_MapUntouchedWhileWorkersRun ==
    ConcurrentWorkRunning => maxIndexes = <<>>

\* C17 as amended: the map changes only in a step in which the collecting
\* loop of find receives an entry, by the update for that entry, which may
\* be while the walker and workers still run; and the filter that reads the
\* map runs only after the walker and all workers have terminated and both
\* channels are closed.
C17_MapOwnedByCollector ==
    /\ [][maxIndexes' # maxIndexes =>
             /\ findPc = "collect" /\ findPc' = "collect"
             /\ Len(received') = Len(received) + 1
             /\ maxIndexes' = UpdateMaxIndexes(maxIndexes, received'[Len(received')])]_vars
    /\ [][findPc' # findPc =>
             /\ AllTerminated
             /\ maxIndexes' = maxIndexes
             /\ maxIndexes = MaxIndexesOf(received)]_vars

\* The map has been written while the walker and a worker are still running.
C17_Witness ==
    /\ maxIndexes # <<>>
    /\ walkerPc # "done"
    /\ wg > 0

\* C19: the workers that wait, parse or send are the live workers, at most
\* numWorkers of them, so at most numWorkers pairs are handed off and not yet
\* fully processed; and a pair is handed off only in a step in which a worker
\* that was waiting takes it.
C19_HandoffBounded ==
    /\ [](/\ waiting >= 0
          /\ waiting + Cardinality(parsing) + Cardinality(sending) = wg
          /\ wg <= spawned
          /\ spawned <= numWorkers
          /\ Cardinality(parsing) + Cardinality(sending) <= numWorkers)
    /\ [][walkerEnts' # walkerEnts /\ walkerPc = "send" =>
             /\ waiting > 0
             /\ waiting' = waiting - 1
             /\ Cardinality(parsing') = Cardinality(parsing) + 1]_vars

\* The walker is blocked on a send while each of two or more workers holds a
\* pair or an entry.
C19_Witness ==
    /\ numWorkers >= 2
    /\ walkerPc = "send"
    /\ waiting = 0
    /\ Cardinality(parsing) + Cardinality(sending) = numWorkers

(***************************************************************************)
(* parse on one candidate file (ParseSpec)                                 *)
(***************************************************************************)
\* The line is empty or holds only spaces and tabs.
BlankLine(line) == \A i \in 1..Len(line) : line[i] = " " \/ line[i] = "\t"

\* The lines before the first blank line.
FirstBlock(lines) ==
    LET blanks == {i \in 1..Len(lines) : BlankLine(lines[i])}
    IN IF blanks = {} THEN lines
       ELSE SubSeq(lines, 1, (CHOOSE i \in blanks : \A j \in blanks : i <= j) - 1)

HasTypeLine(block) == \E i \in 1..Len(block) : HasPrefix(block[i], TypeLine)

HasHideLine(block) ==
    \E i \in 1..Len(block) :
        HasPrefix(block[i], NoDisplayLine) \/ HasPrefix(block[i], TerminalLine)

ExecLines(block) == {i \in 1..Len(block) : HasPrefix(block[i], ExecPrefix)}

\* The value of the last Exec= line of the block, empty when it has none.
LastExecValue(block) ==
    LET ex == ExecLines(block)
    IN IF ex = {} THEN <<>>
       ELSE LET last == CHOOSE i \in ex : \A j \in ex : j <= i
            IN SubSeq(block[last], Len(ExecPrefix) + 1, Len(block[last]))

\* parse has been called on the candidate.
Parsed == pureOut.kind \in {"err", "nil", "appl"}

\* C11: the result of parse is the result for the file cut off before its
\* first blank (empty or whitespace-only) line: no line after that line
\* changes the command, sets the type flag or hides the entry.
C11_OnlyFirstBlockCounts ==
    Parsed =>
        pureOut = ParseEnt([pureIn EXCEPT !.lines = FirstBlock(pureIn.lines)])

\* parse has returned an entry for a file that has a NoDisplay=true line
\* after its first blank line.
C11_Witness ==
    /\ pureOut.kind = "appl"
    /\ \E i, j \in 1..Len(pureIn.lines) :
          /\ i < j
          /\ BlankLine(pureIn.lines[i])
          /\ pureIn.lines[j] = NoDisplayLine

\* C12: parse returns an entry only for a file whose first block has a
\* Type=Application line and whose last Exec= value is not empty; for a file
\* that lacks either it returns (nil, nil): no entry and no error.
C12_NeedsTypeAndCommand ==
    Parsed =>
        LET block == FirstBlock(pureIn.lines)
            complete == HasTypeLine(block) /\ LastExecValue(block) # <<>>
        IN /\ pureOut.kind = "appl" => complete
           /\ ~complete => pureOut.kind = "nil"

\* parse has returned (nil, nil) for a file with a Type=Application line, no
\* Exec= line and no line that hides it.
C12_Witness ==
    /\ pureOut.kind = "nil"
    /\ HasTypeLine(FirstBlock(pureIn.lines))
    /\ ExecLines(FirstBlock(pureIn.lines)) = {}
    /\ ~HasHideLine(FirstBlock(pureIn.lines))

\* C13 as stated: every entry parse returns for a candidate file has a
\* non-empty name.
C13_NameNeverEmpty ==
    pureOut.kind = "appl" => pureOut.appl.name # <<>>

\* C18: the command of an entry is made from the value of the last Exec=
\* line of the first block, and a file whose last Exec= line has an empty
\* value yields no entry.
C18_LastExecWins ==
    Parsed =>
        LET block == FirstBlock(pureIn.lines)
        IN /\ pureOut.kind = "appl" =>
                 pureOut.appl.command = Replace(commandArgReplacer, LastExecValue(block))
           /\ (ExecLines(block) # {} /\ LastExecValue(block) = <<>>) =>
                 pureOut.kind = "nil"

\* parse has returned an entry for a file whose first block has two Exec=
\* lines of different values.
C18_Witness ==
    /\ pureOut.kind = "appl"
    /\ \E i, j \in ExecLines(FirstBlock(pureIn.lines)) :
          /\ i < j
          /\ pureIn.lines[i] # pureIn.lines[j]

(***************************************************************************)
(* Replace on one raw command (ReplaceSpec)                                *)
(***************************************************************************)
\* The placeholder tokens.
Tokens ==
    {<<"%", x>> : x \in {"f", "F", "u", "U", "d", "D", "n", "N", "i", "c", "k", "v", "m"}}
      \cup {<<"@", "@", "u">>, <<"@", "@">>}

\* The raw command read from left to right: where a token starts, the
\* longest token that starts there is dropped and reading goes on after it;
\* any other character is kept, a tab as a space.
RECURSIVE Normalized(_)
Normalized(s) ==
    IF s = <<>> THEN <<>>
    ELSE LET lens == {n \in 1..Len(s) : SubSeq(s, 1, n) \in Tokens}
         IN IF lens # {}
            THEN LET n == CHOOSE m \in lens : \A k \in lens : k <= m
                 IN Normalized(SubSeq(s, n + 1, Len(s)))
            ELSE <<IF Head(s) = "\t" THEN " " ELSE Head(s)>> \o Normalized(Tail(s))

FirefoxNormalized ==
    <<"f", "i", "r", "e", "f", "o", "x", " ", " ", " ",
      "-", "-", "n", "e", "w", "-", "w", "i", "n", "d", "o", "w">>

\* C15: Replace drops every token occurrence met when the raw command is
\* read from left to right (occurrences do not overlap), turns each tab into
\* one space and keeps every other character, in order; the command
\* "firefox %u %U --new-window" becomes "firefox   --new-window".
C15_TokensDroppedTabsToSpaces ==
    pureOut.kind = "replaced" =>
        /\ pureOut.command = Normalized(pureIn)
        /\ pureIn = FirefoxCommand => pureOut.command = FirefoxNormalized

\* Replace has been applied to a raw command with a tab, a token and another
\* character.
C15_Witness ==
    /\ pureOut.kind = "replaced"
    /\ Contains(pureIn, <<"%", "u">>)
    /\ Contains(pureIn, <<"\t">>)
    /\ Contains(pureIn, <<"a">>)

\* C16 as stated: the result of Replace holds no occurrence of a token.
C16_NoTokenLeft ==
    pureOut.kind = "replaced" =>
        \A t \in Tokens : ~Contains(pureOut.command, t)

====
